---- MODULE Spec2Model ----
(***************************************************************************)
(* Model of the PubMed paper filter (company_project):                     *)
(*   xml_parser.identify_company_affiliation  - affiliation classifier     *)
(*   xml_parser.parse_pubmed_article_xml      - article extractor          *)
(*   xml_parser.get_non_academic_authors      - per-article aggregation    *)
(*   get_papers_list.main                     - batch loop and report      *)
(* Text is modelled as a sequence of one-character strings, so that the    *)
(* regular expressions of the source are evaluated character by character. *)
(***************************************************************************)
EXTENDS Integers, Sequences, FiniteSets, TLC

VARIABLES
  affiliation_text,   \* classifier: the argument of identify_company_affiliation
  company_name,       \* classifier: its return value
  cls_pc,             \* classifier: "build" while the input grows, "done" after the call
  cls_pieces,         \* classifier: number of pieces the input was put together from
  xml_content,        \* extractor: the argument of parse_pubmed_article_xml
  parse_pc,           \* extractor: position in parse_pubmed_article_xml and after it
  pubmed_id,          \* extractor: local of the same name
  title,              \* extractor: local of the same name
  publication_date,   \* extractor: local of the same name
  authors_data,       \* extractor: local of the same name
  corresponding_author_email,  \* extractor: local of the same name
  author_idx,         \* extractor: index of the next Author element of the loop
  parsed_article,     \* extractor: the value returned
  non_academic_authors,  \* aggregation: first list returned by get_non_academic_authors
  company_affiliations,  \* aggregation: second list returned
  main_pc,            \* main: position in main
  articles,           \* main: the PubmedArticle elements of the response
  article_idx,        \* main: index of the next element of the loop
  csv_data,           \* main: local of the same name
  total_articles_processed,  \* main: local of the same name
  relevant_papers_count,     \* main: local of the same name
  written,            \* main: the rows written to the file or the console
  message,            \* main: the last message printed for the user
  main_error          \* main: the handler of line 133 has run

clsVars == <<affiliation_text, company_name, cls_pc, cls_pieces>>

artVars ==
  <<xml_content, parse_pc, pubmed_id, title, publication_date, authors_data,
    corresponding_author_email, author_idx, parsed_article,
    non_academic_authors, company_affiliations>>

mainVars ==
  <<main_pc, articles, article_idx, csv_data, total_articles_processed,
    relevant_papers_count, written, message, main_error>>

vars == <<clsVars, artVars, mainVars>>

(* ------------------------------------------------------------------ *)
(* Python values                                                        *)
(* ------------------------------------------------------------------ *)

\* Python's None; distinct from every character sequence.
None == <<"None">>

\* str(None), as produced by an f-string.
NoneStr == <<"N", "o", "n", "e">>

(* ------------------------------------------------------------------ *)
(* Characters and the character classes of module re                    *)
(* ------------------------------------------------------------------ *)

LowerSeq ==
  <<"a", "b", "c", "d", "e", "f", "g", "h", "i", "j", "k", "l", "m",
    "n", "o", "p", "q", "r", "s", "t", "u", "v", "w", "x", "y", "z">>

UpperSeq ==
  <<"A", "B", "C", "D", "E", "F", "G", "H", "I", "J", "K", "L", "M",
    "N", "O", "P", "Q", "R", "S", "T", "U", "V", "W", "X", "Y", "Z">>

Lower == {LowerSeq[i] : i \in DOMAIN LowerSeq}

Upper == {UpperSeq[i] : i \in DOMAIN UpperSeq}

Digit == {"0", "1", "2", "3", "4", "5", "6", "7", "8", "9"}

Letter == Lower \cup Upper

\* \w
WordChar == Letter \cup Digit \cup {"_"}

\* \s, and the characters str.strip() removes
Whitespace == {" ", "\t", "\n", "\r"}

\* str.lower() on one character
ToLower(c) ==
  IF c \in Upper THEN LowerSeq[CHOOSE i \in DOMAIN UpperSeq : UpperSeq[i] = c] ELSE c

\* str.lower()
Lowercase(s) == <<>> \o [i \in 1..Len(s) |-> ToLower(s[i])]

\* s[a..b], empty when a > b
Slice(s, a, b) == <<>> \o [i \in 1..(b - a + 1) |-> s[a + i - 1]]

\* str.strip()
Strip(s) ==
  LET keep == {i \in 1..Len(s) : s[i] \notin Whitespace}
  IN  IF keep = {} THEN <<>>
      ELSE LET first == CHOOSE i \in keep : \A j \in keep : i <= j
               last  == CHOOSE i \in keep : \A j \in keep : j <= i
           IN  Slice(s, first, last)

\* the literal kw occurs in s starting at position p
MatchAt(kw, s, p) ==
  /\ p >= 1
  /\ p + Len(kw) - 1 <= Len(s)
  /\ \A j \in 1..Len(kw) : s[p + j - 1] = kw[j]

\* the same under re.IGNORECASE, kw being lower case
MatchAtIgnoreCase(kw, s, p) ==
  /\ p >= 1
  /\ p + Len(kw) - 1 <= Len(s)
  /\ \A j \in 1..Len(kw) : ToLower(s[p + j - 1]) = kw[j]

\* Python's `kw in s`
Contains(kw, s) == \E p \in 1..(Len(s) - Len(kw) + 1) : MatchAt(kw, s, p)

IsWordAt(s, k) == k \in 1..Len(s) /\ s[k] \in WordChar

\* \b between positions p - 1 and p of s (p in 1..Len(s) + 1)
Boundary(s, p) == IsWordAt(s, p - 1) # IsWordAt(s, p)

(* ------------------------------------------------------------------ *)
(* The keyword tables of identify_company_affiliation                   *)
(* ------------------------------------------------------------------ *)

\* r"\bkw\b"
Bounded(kw) == [body |-> kw, wb |-> TRUE, notfollowed |-> {}]

\* r"\bkw\b(?!a|b|...)"
BoundedNotFollowed(kw, la) == [body |-> kw, wb |-> TRUE, notfollowed |-> la]

\* r"kw", a pattern without word boundaries
Plain(kw) == [body |-> kw, wb |-> FALSE, notfollowed |-> {}]

\* re.search(pattern, s) is not None, for the patterns of the tables
RegexSearch(pat, s) ==
  \E p \in 1..(Len(s) - Len(pat.body) + 1) :
     /\ MatchAt(pat.body, s, p)
     /\ pat.wb => Boundary(s, p) /\ Boundary(s, p + Len(pat.body))
     /\ \A la \in pat.notfollowed : ~MatchAt(la, s, p + Len(pat.body))

\* any(re.search(keyword, s) for keyword in table)
AnySearch(table, s) == \E k \in DOMAIN table : RegexSearch(table[k], s)

pharmaceutical_keywords ==
  <<Bounded(<<"p", "h", "a", "r", "m", "a", "c", "e", "u", "t", "i", "c", "a", "l">>),
     Bounded(<<"p", "h", "a", "r", "m", "a">>),
     Bounded(<<"d", "r", "u", "g", " ", "c", "o", "m", "p", "a", "n", "y">>),
     Bounded(<<"b", "i", "o", "t", "e", "c", "h">>),
     Bounded(<<"b", "i", "o", "t", "e", "c", "h", "n", "o", "l", "o", "g", "y">>),
     Bounded(<<"b", "i", "o", "s", "c", "i", "e", "n", "c", "e", "s">>),
     Bounded(<<"g", "e", "n", "o", "m", "i", "c", "s">>),
     Bounded(<<"t", "h", "e", "r", "a", "p", "e", "u", "t", "i", "c", "s">>),
     Bounded(<<"d", "i", "a", "g", "n", "o", "s", "t", "i", "c", "s">>),
     Bounded(<<"o", "n", "c", "o", "l", "o", "g", "y", " ", "s", "o", "l", "u", "t", "i", "o", "n", "s">>),
     Bounded(<<"i", "n", "c">>),
     Bounded(<<"l", "l", "c">>),
     Bounded(<<"c", "o", "r", "p">>),
     Bounded(<<"c", "o">>),
     Bounded(<<"a", "g">>),
     Bounded(<<"g", "m", "b", "h">>),
     Bounded(<<"l", "i", "m", "i", "t", "e", "d">>),
     Bounded(<<"s", ".", "a", ".">>),
     Bounded(<<"p", "t", "e", " ", "l", "t", "d">>),
     Bounded(<<"p", "l", "c">>),
     Bounded(<<"s", ".", "l", ".">>),
     Bounded(<<"l", "a", "b", "o", "r", "a", "t", "o", "r", "i", "e", "s">>),
     Bounded(<<"r", "&", "d">>),
     Bounded(<<"r", "n", "d">>),
     Bounded(<<"r", "e", "s", "e", "a", "r", "c", "h", " ", "&", " ", "d", "e", "v", "e", "l", "o", "p", "m", "e", "n", "t">>),
     Plain(<<"a", "b", "b", "v", "i", "e">>),
     Plain(<<"p", "f", "i", "z", "e", "r">>),
     Plain(<<"n", "o", "v", "a", "r", "t", "i", "s">>),
     Plain(<<"r", "o", "c", "h", "e">>),
     Plain(<<"m", "e", "r", "c", "k">>),
     Plain(<<"j", "a", "n", "s", "s", "e", "n">>),
     Plain(<<"a", "s", "t", "r", "a", "z", "e", "n", "e", "c", "a">>),
     Plain(<<"g", "i", "l", "e", "a", "d">>),
     Plain(<<"a", "m", "g", "e", "n">>),
     Plain(<<"s", "a", "n", "o", "f", "i">>),
     Plain(<<"b", "a", "y", "e", "r">>),
     Plain(<<"e", "l", "i", " ", "l", "i", "l", "l", "y">>),
     Plain(<<"g", "l", "a", "x", "o", "s", "m", "i", "t", "h", "k", "l", "i", "n", "e">>),
     Plain(<<"r", "e", "g", "e", "n", "e", "r", "o", "n">>),
     Plain(<<"v", "e", "r", "t", "e", "x">>),
     Plain(<<"b", "i", "o", "g", "e", "n">>),
     Plain(<<"m", "o", "d", "e", "r", "n", "a">>),
     Plain(<<"b", "i", "o", "n", "t", "e", "c", "h">>),
     Plain(<<"n", "o", "v", "o", " ", "n", "o", "r", "d", "i", "s", "k">>),
     Plain(<<"t", "e", "v", "a">>),
     Plain(<<"m", "y", "l", "a", "n">>),
     Plain(<<"d", "a", "i", "i", "c", "h", "i", " ", "s", "a", "n", "k", "y", "o">>),
     Plain(<<"t", "a", "k", "e", "d", "a">>),
     Plain(<<"c", "h", "i", "e", "s", "i">>),
     Plain(<<"g", "r", "u", "n", "e", "n", "t", "h", "a", "l">>),
     Plain(<<"g", "y", "a", "l", "a", " ", "t", "h", "e", "r", "a", "p", "e", "u", "t", "i", "c", "s">>),
     Plain(<<"b", "i", "o", "s", "f", "e", "r", " ", "t", "e", "s", "l", "a", "b">>)>>

general_company_indicators ==
  <<Bounded(<<"p", "h", "a", "r", "m", "a", "c", "e", "u", "t", "i", "c", "a", "l">>),
     Bounded(<<"p", "h", "a", "r", "m", "a">>),
     Bounded(<<"b", "i", "o", "t", "e", "c", "h">>),
     Bounded(<<"b", "i", "o", "t", "e", "c", "h", "n", "o", "l", "o", "g", "y">>),
     Bounded(<<"t", "h", "e", "r", "a", "p", "e", "u", "t", "i", "c", "s">>),
     Bounded(<<"d", "i", "a", "g", "n", "o", "s", "t", "i", "c", "s">>),
     Bounded(<<"l", "a", "b", "o", "r", "a", "t", "o", "r", "i", "e", "s">>),
     Bounded(<<"r", "&", "d">>),
     Bounded(<<"r", "n", "d">>),
     Bounded(<<"r", "e", "s", "e", "a", "r", "c", "h", " ", "&", " ", "d", "e", "v", "e", "l", "o", "p", "m", "e", "n", "t">>)>>

company_suffixes ==
  <<Bounded(<<"i", "n", "c">>),
     Bounded(<<"l", "l", "c">>),
     Bounded(<<"c", "o", "r", "p">>),
     Bounded(<<"c", "o">>),
     Bounded(<<"a", "g">>),
     Bounded(<<"g", "m", "b", "h">>),
     Bounded(<<"l", "i", "m", "i", "t", "e", "d">>),
     Bounded(<<"s", ".", "a", ".">>),
     Bounded(<<"p", "t", "e", " ", "l", "t", "d">>),
     Bounded(<<"p", "l", "c">>),
     Bounded(<<"s", ".", "l", ".">>)>>

\* the alternatives of the negative lookahead after "research center" / "research institute"
research_lookahead ==
  {<<" ", "f", "o", "r", " ", "c", "a", "n", "c", "e", "r">>,
   <<" ", "f", "o", "r", " ", "d", "i", "s", "e", "a", "s", "e">>,
   <<" ", "f", "o", "r", " ", "c", "l", "i", "n", "i", "c", "a", "l">>,
   <<"f", "o", "r", " ", "i", "n", "n", "o", "v", "a", "t", "i", "o", "n">>,
   <<"f", "o", "r", " ", "t", "r", "a", "n", "s", "l", "a", "t", "i", "o", "n", "a", "l">>}

academic_keywords ==
  <<Bounded(<<"u", "n", "i", "v", "e", "r", "s", "i", "t", "y">>),
     Bounded(<<"c", "o", "l", "l", "e", "g", "e">>),
     Bounded(<<"h", "o", "s", "p", "i", "t", "a", "l">>),
     Bounded(<<"s", "c", "h", "o", "o", "l", " ", "o", "f">>),
     Bounded(<<"d", "e", "p", "a", "r", "t", "m", "e", "n", "t", " ", "o", "f">>),
     Bounded(<<"i", "n", "s", "t", "i", "t", "u", "t", "e", " ", "o", "f">>),
     Bounded(<<"m", "e", "d", "i", "c", "a", "l", " ", "c", "e", "n", "t", "e", "r">>),
     Bounded(<<"c", "l", "i", "n", "i", "c">>),
     Bounded(<<"a", "c", "a", "d", "e", "m", "y">>),
     Bounded(<<"f", "o", "u", "n", "d", "a", "t", "i", "o", "n">>),
     Bounded(<<"N", "I", "H">>),
     Bounded(<<"C", "D", "C">>),
     Bounded(<<"F", "D", "A">>),
     Bounded(<<"W", "H", "O">>),
     Bounded(<<"n", "h", "s">>),
     Bounded(<<"h", "e", "a", "l", "t", "h", " ", "s", "y", "s", "t", "e", "m">>),
     BoundedNotFollowed(<<"r", "e", "s", "e", "a", "r", "c", "h", " ", "c", "e", "n", "t", "e", "r">>, research_lookahead),
     BoundedNotFollowed(<<"r", "e", "s", "e", "a", "r", "c", "h", " ", "i", "n", "s", "t", "i", "t", "u", "t", "e">>, research_lookahead)>>

\* the fragments of the filter in the computation of found_specific_company_name
suffix_fragments ==
  {<<"i", "n", "c">>,
   <<"l", "l", "c">>,
   <<"c", "o", "r", "p">>,
   <<"c", "o">>,
   <<"a", "g">>,
   <<"g", "m", "b", "h">>,
   <<"l", "i", "m", "i", "t", "e", "d">>,
   <<"s", ".", "a", ".">>,
   <<"p", "t", "e", " ", "l", "t", "d">>,
   <<"p", "l", "c">>,
   <<"s", ".", "l", ".">>}

\* the alternation (?:inc|llc|...) of the fallback pattern, in its order
label_suffixes ==
  <<<<"i", "n", "c">>,
     <<"l", "l", "c">>,
     <<"c", "o", "r", "p">>,
     <<"c", "o">>,
     <<"g", "m", "b", "h">>,
     <<"a", "g">>,
     <<"l", "t", "d">>,
     <<"s", ".", "a", ".">>,
     <<"p", "t", "e", " ", "l", "t", "d">>,
     <<"p", "l", "c">>,
     <<"s", ".", "l", ".">>>>

(* ------------------------------------------------------------------ *)
(* identify_company_affiliation                                         *)
(* ------------------------------------------------------------------ *)

normalized_text(text) == Lowercase(text)

is_strong_academic(text) == AnySearch(academic_keywords, normalized_text(text))

found_strong_company_keywords(text) ==
  AnySearch(general_company_indicators, normalized_text(text))

\* a suffix signal that an academic keyword cancels
found_company_suffix_UnlessAcademic(text) ==
  AnySearch(company_suffixes, normalized_text(text)) /\ ~is_strong_academic(text)

found_company_suffix(text) == AnySearch(company_suffixes, normalized_text(text))

\* kw.startswith(r"\b") and kw.endswith(r"\b")
IsBoundedKeyword(pat) == pat.wb

\* the list comprehension of line 145: the keywords that are not \b...\b patterns
\* and contain none of the suffix fragments
specific_company_names ==
  SelectSeq(pharmaceutical_keywords,
            LAMBDA pat : /\ ~IsBoundedKeyword(pat)
                         /\ ~\E frag \in suffix_fragments : Contains(frag, pat.body))

found_specific_company_name(text) ==
  \E k \in DOMAIN specific_company_names :
     Contains(Lowercase(specific_company_names[k].body), normalized_text(text))

\* a decision that takes every non-academic text for a company
is_company_affiliated_NotAcademic(text) == ~is_strong_academic(text)

is_company_affiliated(text) ==
  \/ found_strong_company_keywords(text)
  \/ found_company_suffix(text)
  \/ found_specific_company_name(text)

\* an early return in which the academic signal wins
ReturnsAcademic_AcademicWins(text) == is_strong_academic(text)

\* the early return of line 157: academic, and no company indicator
ReturnsAcademic(text) ==
  /\ is_strong_academic(text)
  /\ ~(\/ found_strong_company_keywords(text)
       \/ found_company_suffix(text)
       \/ found_specific_company_name(text))

\* the loop of lines 169-172: the indices of the unbounded keywords found in the text
NameHits(text) ==
  {k \in DOMAIN pharmaceutical_keywords :
     /\ ~IsBoundedKeyword(pharmaceutical_keywords[k])
     /\ Contains(Lowercase(pharmaceutical_keywords[k].body), normalized_text(text))}

\* the keyword that loop returns (None when it falls through)
FirstNamedEntity(text) ==
  LET hits == NameHits(text)
  IN  IF hits = {} THEN None
      ELSE LET k == CHOOSE k \in hits : \A j \in hits : k <= j
           IN  Strip(pharmaceutical_keywords[k].body)

\* [a-z0-9\s,\.&-] under re.IGNORECASE
LabelMidClass == Letter \cup Digit \cup Whitespace \cup {",", ".", "&", "-"}

\* number of characters of LabelMidClass in s from position p on
RECURSIVE MidRun(_, _)
MidRun(s, p) ==
  IF p <= Len(s) /\ s[p] \in LabelMidClass THEN 1 + MidRun(s, p + 1) ELSE 0

\* (?:inc|...)\.?)\b at position p: alternative a, with the optional dot (d = 1) or not
LabelTailOK(s, p, a, d) ==
  LET alt == label_suffixes[a]
      e   == p + Len(alt) - 1
  IN  /\ MatchAtIgnoreCase(alt, s, p)
      /\ IF d = 1 THEN e + 1 <= Len(s) /\ s[e + 1] = "." /\ Boundary(s, e + 2)
         ELSE Boundary(s, e + 1)

\* \b[A-Z] can start at position i
LabelStartOK(s, i) == s[i] \in Letter /\ Boundary(s, i)

\* the lengths m of the lazy middle part for which the rest of the pattern matches
LabelMids(s, i) ==
  {m \in 1..MidRun(s, i + 1) :
     \E a \in DOMAIN label_suffixes, d \in {0, 1} : LabelTailOK(s, i + m + 1, a, d)}

\* re.search of the fallback pattern of lines 175-178 on the original text:
\* group(1), or None. Leftmost start, shortest middle, first alternative,
\* the optional dot taken when it can be.
LabelSearch(s) ==
  LET starts == {i \in 1..Len(s) : LabelStartOK(s, i) /\ LabelMids(s, i) # {}}
  IN  IF starts = {} THEN None
      ELSE LET i == CHOOSE x \in starts : \A y \in starts : x <= y
               m == CHOOSE x \in LabelMids(s, i) : \A y \in LabelMids(s, i) : x <= y
               p == i + m + 1
               alts == {a \in DOMAIN label_suffixes :
                          \E d \in {0, 1} : LabelTailOK(s, p, a, d)}
               a == CHOOSE x \in alts : \A y \in alts : x <= y
               d == IF LabelTailOK(s, p, a, 1) THEN 1 ELSE 0
           IN  Slice(s, i, p + Len(label_suffixes[a]) - 1 + d)

\* a label extraction that tries the suffix pattern before the roster
ExtractLabel_SuffixFirst(text) ==
  LET entity == FirstNamedEntity(text)
      match  == LabelSearch(text)
  IN  IF match # None THEN Strip(match)
      ELSE IF entity # None THEN entity
      ELSE Strip(text)

\* lines 163-187: the label of an affiliation classified as company-affiliated
ExtractLabel(text) ==
  LET entity == FirstNamedEntity(text)
      match  == LabelSearch(text)
  IN  IF entity # None THEN entity
      ELSE IF match # None THEN Strip(match)
      ELSE Strip(text)

identify_company_affiliation(text) ==
  IF ReturnsAcademic(text) THEN None
  ELSE IF is_company_affiliated(text) THEN ExtractLabel(text)
  ELSE None

(* ------------------------------------------------------------------ *)
(* The XML record of one article, as ElementTree presents it            *)
(* ------------------------------------------------------------------ *)

\* find() returned None: the element is not in the record
Missing == <<"Missing">>

\* find() returned None where the element has children (PubDate)
MissingElement == [missing |-> TRUE]

\* an input on which ET.fromstring raises ParseError
Unparseable == [unparseable |-> TRUE]

\* None where a dict is expected (the failure result of the parser)
NoArticle == [none |-> TRUE]

\* the value of a guarded read `e.text if e is not None else 'N/A'`
NA == <<"N", "/", "A">>

UnknownAuthor == <<"U", "n", "k", "n", "o", "w", "n", " ", "A", "u", "t", "h", "o", "r">>

\* raised by `None += str` (line 35 or 37)
TypeError == <<"TypeError">>

ParseError == <<"ParseError">>

\* the try/except of lines 15, 84-89: what becomes of an exception of this kind
ExceptHandler_ParseErrorOnly(kind) ==
  IF kind = ParseError THEN "return_none" ELSE "propagate"

ExceptHandler(kind) ==
  IF kind = ParseError THEN "return_none"     \* except ET.ParseError
  ELSE "return_none"                          \* except Exception

\* f"{x}" for a text or None
Format(x) == IF x = None THEN NoneStr ELSE x

\* x + y on strings: a TypeError when x is None
Concat(x, y) == IF x = None \/ x = TypeError THEN TypeError ELSE x \o y

\* lines 18-19, 21-22: the text of the element, 'N/A' when there is no element
TextOrNA(element) == IF element # Missing THEN element ELSE NA

\* lines 24-39
PublicationDate(pub_date_element) ==
  IF pub_date_element = MissingElement THEN NA
  ELSE LET year    == pub_date_element.Year
           month   == pub_date_element.Month
           day     == pub_date_element.Day
           medline == pub_date_element.MedlineDate
       IN  IF year # Missing
             THEN LET d0 == year
                      d1 == IF month # Missing THEN Concat(d0, <<"-">> \o Format(month)) ELSE d0
                      d2 == IF day # Missing THEN Concat(d1, <<"-">> \o Format(day)) ELSE d1
                  IN  d2
           ELSE IF medline # Missing THEN medline
           ELSE NA

\* lines 51-54
AuthorName(author_element) ==
  LET last == author_element.LastName
      fore == author_element.ForeName
      init == author_element.Initials
  IN  IF fore # Missing /\ last # Missing THEN Format(fore) \o <<" ">> \o Format(last)
      ELSE IF last # Missing THEN last
      ELSE IF init # Missing THEN init
      ELSE UnknownAuthor

\* `affiliation_element.text` is truthy
Truthy(text) == text # None /\ text # <<>>

\* line 58: the condition under which an affiliation node is kept
KeepAffiliation(text) == Truthy(text)

\* lines 56-59: the affiliation list of one author
RECURSIVE Affiliations(_)
Affiliations(nodes) ==
  IF nodes = <<>> THEN <<>>
  ELSE IF KeepAffiliation(Head(nodes))
         THEN <<Strip(Head(nodes))>> \o Affiliations(Tail(nodes))
       ELSE Affiliations(Tail(nodes))

EmailLocalClass == Letter \cup Digit \cup {".", "_", "%", "+", "-"}

EmailDomainClass == Letter \cup Digit \cup {".", "-"}

\* [A-Z|a-z]
EmailTldClass == Letter \cup {"|"}

\* number of characters of class cls in s from position p on
RECURSIVE Run(_, _, _)
Run(s, p, cls) == IF p <= Len(s) /\ s[p] \in cls THEN 1 + Run(s, p + 1, cls) ELSE 0

\* the lengths t of the last part [A-Z|a-z]{2,}\b that match at position p
EmailTlds(s, p) == {t \in 2..Run(s, p, EmailTldClass) : Boundary(s, p + t)}

\* the lengths d of the domain part after which \.[A-Z|a-z]{2,}\b matches
EmailDomains(s, q) ==
  {d \in 1..Run(s, q, EmailDomainClass) :
     /\ q + d <= Len(s)
     /\ s[q + d] = "."
     /\ EmailTlds(s, q + d + 1) # {}}

\* the pattern of line 63 can match from position i on
EmailStartOK(s, i) ==
  LET l == Run(s, i, EmailLocalClass)
  IN  /\ Boundary(s, i)
      /\ l >= 1
      /\ i + l <= Len(s)
      /\ s[i + l] = "@"
      /\ EmailDomains(s, i + l + 1) # {}

\* line 63: re.search of the e-mail pattern, group(0) or None.
\* Leftmost start, then the longest domain part, then the longest last part.
EmailSearch(s) ==
  LET starts == {i \in 1..Len(s) : EmailStartOK(s, i)}
  IN  IF starts = {} THEN None
      ELSE LET i  == CHOOSE x \in starts : \A y \in starts : x <= y
               q  == i + Run(s, i, EmailLocalClass) + 1
               ds == EmailDomains(s, q)
               d  == CHOOSE x \in ds : \A y \in ds : y <= x
               ts == EmailTlds(s, q + d + 1)
               t  == CHOOSE x \in ts : \A y \in ts : y <= x
           IN  Slice(s, i, q + d + t)

\* lines 61-65: the matches in the affiliations of one author, in order
RECURSIVE FoundEmails(_)
FoundEmails(affiliations) ==
  IF affiliations = <<>> THEN <<>>
  ELSE IF EmailSearch(Head(affiliations)) # None
         THEN <<EmailSearch(Head(affiliations))>> \o FoundEmails(Tail(affiliations))
       ELSE FoundEmails(Tail(affiliations))

\* an update that lets every author with an e-mail overwrite the field
UpdateEmail_Overwrite(current, found_emails) ==
  IF found_emails # <<>> THEN found_emails[1] ELSE current

\* lines 67-68
UpdateEmail(current, found_emails) ==
  IF found_emails # <<>> /\ current = None THEN found_emails[1] ELSE current

\* lines 70-74
AuthorEntry(author_element) ==
  [name |-> AuthorName(author_element),
   affiliations |-> Affiliations(author_element.Affiliation),
   is_corresponding |-> FALSE]

\* lines 76-82
ArticleDict(id, ttl, date, authors, email) ==
  [pubmed_id |-> id, title |-> ttl, publication_date |-> date,
   authors |-> authors, corresponding_author_email |-> email]

(* ------------------------------------------------------------------ *)
(* get_non_academic_authors                                             *)
(* ------------------------------------------------------------------ *)

\* the truth value of `if company_name:`
TruthyLabel(label) == label # None /\ label # <<>>

\* lines 209-214 for one author: the labels appended, in order
RECURSIVE AuthorLabels(_)
AuthorLabels(affiliations) ==
  IF affiliations = <<>> THEN <<>>
  ELSE LET label == identify_company_affiliation(Head(affiliations))
       IN  IF TruthyLabel(label) THEN <<label>> \o AuthorLabels(Tail(affiliations))
           ELSE AuthorLabels(Tail(affiliations))

\* a loop over the affiliations that stops at the first label
AuthorLabelsAppended_FirstOnly(affiliations) ==
  IF AuthorLabels(affiliations) = <<>> THEN <<>> ELSE <<AuthorLabels(affiliations)[1]>>

\* what one author adds to company_affiliations
AuthorLabelsAppended(affiliations) == AuthorLabels(affiliations)

\* a flag that is set before the loop over the authors and never reset
HasCompanyAffiliation_NoReset(authors, k) ==
  \E j \in 1..k : AuthorLabels(authors[j].affiliations) # <<>>

\* lines 209, 214, 216: has_company_affiliation after the affiliations of author k
HasCompanyAffiliation(authors, k) == AuthorLabels(authors[k].affiliations) # <<>>

\* the list non_academic_authors before line 219 (authors 1..k processed)
RECURSIVE NonAcademicList(_, _)
NonAcademicList(authors, k) ==
  IF k = 0 THEN <<>>
  ELSE IF HasCompanyAffiliation(authors, k)
         THEN Append(NonAcademicList(authors, k - 1), authors[k].name)
       ELSE NonAcademicList(authors, k - 1)

\* the list company_affiliations before line 219 (authors 1..k processed)
RECURSIVE CompanyList(_, _)
CompanyList(authors, k) ==
  IF k = 0 THEN <<>>
  ELSE CompanyList(authors, k - 1) \o AuthorLabelsAppended(authors[k].affiliations)

\* set(list)
ToSet(list) == {list[i] : i \in DOMAIN list}

\* list(set): the lists that hold each element of the set once, in any order
ListsOf(set) ==
  {l \in [1..Cardinality(set) -> set] : \A x \in set : \E i \in DOMAIN l : l[i] = x}

(* ------------------------------------------------------------------ *)
(* Inputs                                                               *)
(* ------------------------------------------------------------------ *)

\* the most authors in one record
MaxAuthors == 2

TextPMID == <<"1">>

TextTitle == <<"T">>

TextYear == <<"2", "0", "2", "3">>

TextMonth == <<"O", "c", "t">>

TextDay == <<"1", "5">>

TextMedlineDate == <<"2", "0", "2", "3", " ", "F", "a", "l", "l">>

PubDateElement(y, m, d, md) == [Year |-> y, Month |-> m, Day |-> d, MedlineDate |-> md]

PubDates ==
  { MissingElement,
    PubDateElement(Missing, Missing, Missing, Missing),
    PubDateElement(Missing, Missing, Missing, TextMedlineDate),
    PubDateElement(Missing, TextMonth, Missing, None),
    PubDateElement(TextYear, Missing, Missing, TextMedlineDate),
    PubDateElement(TextYear, TextMonth, TextDay, Missing),
    PubDateElement(TextYear, None, Missing, Missing),
    PubDateElement(None, Missing, Missing, Missing),
    PubDateElement(None, TextMonth, Missing, Missing),
    PubDateElement(None, Missing, TextDay, Missing) }

\* the text nodes of the Affiliation elements
AffBlank == <<" ", " ">>

AffPfizer == <<" ", "P", "f", "i", "z", "e", "r", " ", "I", "n", "c", ".", " ", "a", "@", "b", ".", "i", "o", " ">>

AffUniversity == <<"U", "n", "i", "v", "e", "r", "s", "i", "t", "y", " ", "c", "@", "d", ".", "o", "r", "g">>

AffAcme == <<"A", "c", "m", "e", " ", "I", "n", "c">>

AffiliationNodeLists ==
  { <<>>,
    <<None, AffBlank>>,
    <<AffUniversity>>,
    <<AffAcme, AffPfizer>>,
    <<AffUniversity, AffBlank, AffPfizer>> }

AuthorElement(last, fore, init, affs) ==
  [LastName |-> last, ForeName |-> fore, Initials |-> init, Affiliation |-> affs]

AuthorNames ==
  { <<<<"S">>, <<"J">>, <<"J">>>>,     \* LastName, ForeName and Initials
    <<None, Missing, <<"J">>>> }       \* an empty LastName element, no ForeName

AuthorElements ==
  {AuthorElement(n[1], n[2], n[3], affs) : n \in AuthorNames, affs \in AffiliationNodeLists}

AuthorLists == UNION {[1..n -> AuthorElements] : n \in 0..MaxAuthors}

XmlRecord(id, ttl, date, has_list, authors) ==
  [PMID |-> id, ArticleTitle |-> ttl, PubDate |-> date,
   HasAuthorList |-> has_list, Author |-> authors]

\* the records the extractor is run on: every heading without authors, and
\* every author list under two headings
XmlRecords ==
  {XmlRecord(id, ttl, date, FALSE, <<>>) :
     id \in {Missing, None, TextPMID}, ttl \in {Missing, None, TextTitle}, date \in PubDates}
  \cup
  {XmlRecord(h[1], h[2], h[3], TRUE, authors) :
     h \in {<<Missing, Missing, MissingElement>>,
            <<TextPMID, TextTitle, PubDateElement(TextYear, TextMonth, TextDay, Missing)>>},
     authors \in AuthorLists}

(* ------------------------------------------------------------------ *)
(* Each component is specified on its own; the variables of the others   *)
(* then keep these values.                                               *)
(* ------------------------------------------------------------------ *)

\* the values of the extractor's variables while another component is looked at
ArticleIdle ==
  /\ xml_content = Unparseable
  /\ parse_pc = "off"
  /\ pubmed_id = None
  /\ title = None
  /\ publication_date = None
  /\ authors_data = <<>>
  /\ corresponding_author_email = None
  /\ author_idx = 0
  /\ parsed_article = NoArticle
  /\ non_academic_authors = <<>>
  /\ company_affiliations = <<>>

\* the values of main's variables while another component is looked at
MainIdle ==
  /\ main_pc = "off"
  /\ articles = <<>>
  /\ article_idx = 0
  /\ csv_data = <<>>
  /\ total_articles_processed = 0
  /\ relevant_papers_count = 0
  /\ written = <<>>
  /\ message = "none"
  /\ main_error = FALSE

\* the values of the classifier's variables while another component is looked at
ClassifierIdle ==
  /\ affiliation_text = <<>>
  /\ company_name = None
  /\ cls_pc = "off"
  /\ cls_pieces = 0

(* ------------------------------------------------------------------ *)
(* Specification of the classifier alone: an affiliation string is      *)
(* put together from pieces, then classified.                           *)
(* ------------------------------------------------------------------ *)

\* the longest affiliation text, in pieces
MaxChunks == 3

Chunks ==
  { <<" ">>, <<".">>,
    <<"U", "n", "i", "v", "e", "r", "s", "i", "t", "y">>,
    <<"P", "f", "i", "z", "e", "r">>,
    <<"A", "b", "b", "V", "i", "e">>,
    <<"I", "n", "c">>,
    <<"P", "h", "a", "r", "m", "a">>,
    <<"S", ".", "A", ".">>,
    <<"R", "e", "s", "e", "a", "r", "c", "h", " ", "I", "n", "s", "t", "i", "t", "u", "t", "e">> }

InitClassify ==
  /\ affiliation_text = <<>>
  /\ company_name = None
  /\ cls_pc = "build"
  /\ cls_pieces = 0
  /\ ArticleIdle
  /\ MainIdle

AppendChunk ==
  /\ cls_pc = "build"
  /\ cls_pieces < MaxChunks
  /\ \E c \in Chunks : affiliation_text' = affiliation_text \o c
  /\ cls_pieces' = cls_pieces + 1
  /\ UNCHANGED <<company_name, cls_pc, artVars, mainVars>>

Classify ==
  /\ cls_pc = "build"
  /\ company_name' = identify_company_affiliation(affiliation_text)
  /\ cls_pc' = "done"
  /\ UNCHANGED <<affiliation_text, cls_pieces, artVars, mainVars>>

NextClassify == AppendChunk \/ Classify

SpecClassify == InitClassify /\ [][NextClassify]_vars

(* ------------------------------------------------------------------ *)
(* Specification of the classifier on the keywords of its tables: an    *)
(* affiliation string is a keyword in some casing, with something       *)
(* before and after it, then classified.                                *)
(* ------------------------------------------------------------------ *)

\* str.upper() on one character
ToUpper(c) ==
  IF c \in Lower THEN UpperSeq[CHOOSE i \in DOMAIN LowerSeq : LowerSeq[i] = c] ELSE c

\* str.upper()
Uppercase(s) == <<>> \o [i \in 1..Len(s) |-> ToUpper(s[i])]

\* str.capitalize() of a lower-case string
Capitalize(s) == IF s = <<>> THEN s ELSE <<ToUpper(s[1])>> \o Tail(s)

\* the casings an affiliation may be written in
Casings(s) == {s, Uppercase(s), Capitalize(s)}

\* the \b...\b keywords of pharmaceutical_keywords that are not legal suffixes
SectorWords ==
  {pharmaceutical_keywords[k].body : k \in
     {j \in DOMAIN pharmaceutical_keywords :
        /\ IsBoundedKeyword(pharmaceutical_keywords[j])
        /\ pharmaceutical_keywords[j].body \notin suffix_fragments}}

\* what stands before the keyword: nothing, a name, an academic keyword
TextPrefixes ==
  { <<>>,
    <<"A", "c", "m", "e", " ">>,
    <<"U", "n", "i", "v", "e", "r", "s", "i", "t", "y", " ">> }

\* what stands after a sector keyword: nothing, a word, a letter that adjoins it
SectorSuffixes == { <<>>, <<" ", "U", "n", "i", "t">>, <<"x">> }

SectorTexts ==
  {pre \o word \o suf :
     pre \in TextPrefixes,
     word \in UNION {Casings(w) : w \in SectorWords},
     suf \in SectorSuffixes}

\* the two keywords that carry a negative lookahead
ResearchPhrases ==
  {academic_keywords[k].body : k \in
     {j \in DOMAIN academic_keywords : academic_keywords[j].notfollowed # {}}}

\* what follows the phrase: nothing, an alternative of the lookahead as the
\* pattern writes it, the same after a blank, another continuation
ResearchFollowers ==
  {<<>>, <<" ", "o", "f", " ", "H", "e", "a", "l", "t", "h">>}
    \cup research_lookahead
    \cup {<<" ">> \o la : la \in {x \in research_lookahead : x[1] # " "}}

ResearchTails == { <<>>, <<" ", "S", "t", "u", "d", "i", "e", "s">> }

ResearchTexts ==
  {pre \o core \o tail :
     pre \in TextPrefixes,
     core \in UNION {Casings(ph \o fo) : ph \in ResearchPhrases, fo \in ResearchFollowers},
     tail \in ResearchTails}

KeywordTexts == SectorTexts \cup ResearchTexts

InitKeyword ==
  /\ affiliation_text \in KeywordTexts
  /\ company_name = None
  /\ cls_pc = "build"
  /\ cls_pieces = 1
  /\ ArticleIdle
  /\ MainIdle

NextKeyword == Classify

SpecKeyword == InitKeyword /\ [][NextKeyword]_vars

(* ------------------------------------------------------------------ *)
(* parse_pubmed_article_xml, step by step, then get_non_academic_authors *)
(* ------------------------------------------------------------------ *)

\* an exception of this kind is raised inside the try block
Raise(kind) ==
  IF ExceptHandler(kind) = "return_none"
    THEN parsed_article' = NoArticle /\ parse_pc' = "returned"
  ELSE parse_pc' = "raised" /\ UNCHANGED parsed_article

InitArticle ==
  /\ xml_content \in XmlRecords \cup {Unparseable}
  /\ parse_pc = "start"
  /\ pubmed_id = None
  /\ title = None
  /\ publication_date = None
  /\ authors_data = <<>>
  /\ corresponding_author_email = None
  /\ author_idx = 0
  /\ parsed_article = NoArticle
  /\ non_academic_authors = <<>>
  /\ company_affiliations = <<>>
  /\ ClassifierIdle
  /\ MainIdle

\* line 16
ParseXml ==
  /\ parse_pc = "start"
  /\ IF xml_content = Unparseable
       THEN Raise(ParseError)
     ELSE parse_pc' = "fields" /\ UNCHANGED parsed_article
  /\ UNCHANGED <<xml_content, pubmed_id, title, publication_date, authors_data,
                 corresponding_author_email, author_idx,
                 non_academic_authors, company_affiliations, clsVars, mainVars>>

\* lines 18-42
ParseFields ==
  /\ parse_pc = "fields"
  /\ pubmed_id' = TextOrNA(xml_content.PMID)
  /\ title' = TextOrNA(xml_content.ArticleTitle)
  /\ IF PublicationDate(xml_content.PubDate) = TypeError
       THEN /\ Raise(TypeError)
            /\ UNCHANGED <<publication_date, author_idx>>
     ELSE /\ publication_date' = PublicationDate(xml_content.PubDate)
          /\ author_idx' = 1
          /\ parse_pc' = "authors"
          /\ UNCHANGED parsed_article
  /\ UNCHANGED <<xml_content, authors_data, corresponding_author_email,
                 non_academic_authors, company_affiliations, clsVars, mainVars>>

\* lines 46-74: one iteration of the loop over the Author elements
ParseAuthor ==
  /\ parse_pc = "authors"
  /\ xml_content.HasAuthorList
  /\ author_idx <= Len(xml_content.Author)
  /\ LET entry == AuthorEntry(xml_content.Author[author_idx])
     IN  /\ corresponding_author_email' =
              UpdateEmail(corresponding_author_email, FoundEmails(entry.affiliations))
         /\ authors_data' = Append(authors_data, entry)
  /\ author_idx' = author_idx + 1
  /\ UNCHANGED <<xml_content, parse_pc, pubmed_id, title, publication_date, parsed_article,
                 non_academic_authors, company_affiliations, clsVars, mainVars>>

\* lines 76-82
ParseReturn ==
  /\ parse_pc = "authors"
  /\ ~xml_content.HasAuthorList \/ author_idx > Len(xml_content.Author)
  /\ parsed_article' = ArticleDict(pubmed_id, title, publication_date, authors_data,
                                   corresponding_author_email)
  /\ parse_pc' = "returned"
  /\ UNCHANGED <<xml_content, pubmed_id, title, publication_date, authors_data,
                 corresponding_author_email, author_idx,
                 non_academic_authors, company_affiliations, clsVars, mainVars>>

\* get_non_academic_authors on the article returned (lines 193-219)
Evaluate ==
  /\ parse_pc = "returned"
  /\ parsed_article # NoArticle
  /\ LET authors == parsed_article.authors
     IN  /\ non_academic_authors' \in ListsOf(ToSet(NonAcademicList(authors, Len(authors))))
         /\ company_affiliations' \in ListsOf(ToSet(CompanyList(authors, Len(authors))))
  /\ parse_pc' = "evaluated"
  /\ UNCHANGED <<xml_content, pubmed_id, title, publication_date, authors_data,
                 corresponding_author_email, author_idx, parsed_article, clsVars, mainVars>>

NextArticle == ParseXml \/ ParseFields \/ ParseAuthor \/ ParseReturn \/ Evaluate

SpecArticle == InitArticle /\ [][NextArticle]_vars

(* ------------------------------------------------------------------ *)
(* parse_pubmed_article_xml as one call, for the loop of main           *)
(* ------------------------------------------------------------------ *)

\* the result of the call when an exception of this kind is raised in the try block
Caught(kind) ==
  IF ExceptHandler(kind) = "return_none" THEN NoArticle ELSE [raised |-> kind]

\* lines 41-74: authors_data and corresponding_author_email after k Author elements
RECURSIVE ParseAuthors(_, _)
ParseAuthors(elements, k) ==
  IF k = 0 THEN [authors |-> <<>>, email |-> None]
  ELSE LET before == ParseAuthors(elements, k - 1)
           entry  == AuthorEntry(elements[k])
       IN  [authors |-> Append(before.authors, entry),
            email   |-> UpdateEmail(before.email, FoundEmails(entry.affiliations))]

parse_pubmed_article_xml(xml) ==
  IF xml = Unparseable THEN Caught(ParseError)
  ELSE IF PublicationDate(xml.PubDate) = TypeError THEN Caught(TypeError)
  ELSE LET n == IF xml.HasAuthorList THEN Len(xml.Author) ELSE 0
           r == ParseAuthors(xml.Author, n)
       IN  ArticleDict(TextOrNA(xml.PMID), TextOrNA(xml.ArticleTitle),
                       PublicationDate(xml.PubDate), r.authors, r.email)

\* an aggregation that takes every author of the article for a non-academic one
get_non_academic_authors_EveryAuthor(article) ==
  [authors   |-> {article.authors[i].name : i \in DOMAIN article.authors},
   companies |-> ToSet(CompanyList(article.authors, Len(article.authors)))]

\* the two sets behind the lists get_non_academic_authors returns (line 219)
get_non_academic_authors(article) ==
  [authors   |-> ToSet(NonAcademicList(article.authors, Len(article.authors))),
   companies |-> ToSet(CompanyList(article.authors, Len(article.authors)))]

(* ------------------------------------------------------------------ *)
(* main                                                                 *)
(* ------------------------------------------------------------------ *)

\* the most PubmedArticle elements in one response
MaxArticles == 3

\* lines 64-71
HeaderRow ==
  <<<<"P", "u", "b", "m", "e", "d", "I", "D">>,
    <<"T", "i", "t", "l", "e">>,
    <<"P", "u", "b", "l", "i", "c", "a", "t", "i", "o", "n", " ", "D", "a", "t", "e">>,
    <<"N", "o", "n", "-", "a", "c", "a", "d", "e", "m", "i", "c", " ", "A", "u", "t", "h", "o", "r", "(", "s", ")">>,
    <<"C", "o", "m", "p", "a", "n", "y", " ", "A", "f", "f", "i", "l", "i", "a", "t", "i", "o", "n", "(", "s", ")">>,
    <<"C", "o", "r", "r", "e", "s", "p", "o", "n", "d", "i", "n", "g", " ", "A", "u", "t", "h", "o", "r", " ", "E", "m", "a", "i", "l">>>>

\* "; "
Separator == <<";", " ">>

\* "; ".join(list): TypeError when an item is not a string
RECURSIVE Join(_)
Join(list) ==
  IF \E i \in DOMAIN list : list[i] = None THEN TypeError
  ELSE IF list = <<>> THEN <<>>
  ELSE IF Len(list) = 1 THEN list[1]
  ELSE list[1] \o Separator \o Join(Tail(list))

\* lines 94-110
Row(article, authors_list, companies_list) ==
  <<article.pubmed_id, article.title, article.publication_date,
    Join(authors_list), Join(companies_list), article.corresponding_author_email>>

TypicalDate == PubDateElement(TextYear, TextMonth, TextDay, Missing)

AuthorFull(affs) == AuthorElement(<<"S">>, <<"J">>, <<"J">>, affs)

\* the PubmedArticle elements a response is made of
BatchRecords ==
  { \* every author academic
    XmlRecord(<<"1">>, TextTitle, TypicalDate, TRUE,
              <<AuthorFull(<<AffUniversity>>), AuthorElement(Missing, Missing, Missing, <<>>)>>),
    \* one company author
    XmlRecord(<<"2">>, TextTitle, TypicalDate, TRUE, <<AuthorFull(<<AffPfizer>>)>>),
    \* an empty Year element followed by a Month
    XmlRecord(<<"3">>, TextTitle, PubDateElement(None, TextMonth, Missing, Missing), TRUE,
              <<AuthorFull(<<AffPfizer>>)>>),
    \* a company author whose LastName element is empty
    XmlRecord(<<"4">>, TextTitle, TypicalDate, TRUE,
              <<AuthorElement(None, Missing, Missing, <<AffPfizer>>)>>),
    \* two company authors, two labels
    XmlRecord(<<"5">>, Missing, MissingElement, TRUE,
              <<AuthorFull(<<AffAcme, AffPfizer>>),
                AuthorElement(Missing, Missing, Missing, <<AffAcme>>)>>) }

Batches == UNION {[1..n -> BatchRecords] : n \in 0..MaxArticles}

InitMain ==
  /\ main_pc = "start"
  /\ articles = <<>>
  /\ article_idx = 0
  /\ csv_data = <<>>
  /\ total_articles_processed = 0
  /\ relevant_papers_count = 0
  /\ written = <<>>
  /\ message = "none"
  /\ main_error = FALSE
  /\ ClassifierIdle
  /\ ArticleIdle

\* lines 46-50: the search finds no identifier
MainNoIds ==
  /\ main_pc = "start"
  /\ main_pc' = "done"
  /\ message' = "No PubMed IDs found for the given query."
  /\ UNCHANGED <<articles, article_idx, csv_data, total_articles_processed,
                 relevant_papers_count, written, main_error, clsVars, artVars>>

\* lines 56-60: the fetch returns nothing
MainNoDetails ==
  /\ main_pc = "start"
  /\ main_pc' = "done"
  /\ message' = "No articles found or error fetching details from PubMed API."
  /\ UNCHANGED <<articles, article_idx, csv_data, total_articles_processed,
                 relevant_papers_count, written, main_error, clsVars, artVars>>

\* lines 56-78: the response is parsed into its PubmedArticle elements
MainFetch ==
  /\ main_pc = "start"
  /\ articles' \in Batches
  /\ csv_data' = <<HeaderRow>>
  /\ article_idx' = 1
  /\ main_pc' = "loop"
  /\ UNCHANGED <<total_articles_processed, relevant_papers_count, written, message,
                 main_error, clsVars, artVars>>

\* lines 62-77, 133: the response is not well-formed XML
MainBadResponse ==
  /\ main_pc = "start"
  /\ csv_data' = <<HeaderRow>>
  /\ main_error' = TRUE
  /\ message' = "An error occurred"
  /\ main_pc' = "failed"
  /\ UNCHANGED <<articles, article_idx, total_articles_processed, relevant_papers_count,
                 written, clsVars, artVars>>

\* lines 83-118: one iteration of the loop over the articles
MainArticle ==
  /\ main_pc = "loop"
  /\ article_idx <= Len(articles)
  /\ total_articles_processed' = total_articles_processed + 1
  /\ \E parsed \in {parse_pubmed_article_xml(articles[article_idx])} :
         IF parsed # NoArticle /\ "raised" \in DOMAIN parsed
           THEN \* the exception leaves the loop for the handler of line 133
                /\ main_error' = TRUE
                /\ message' = "An error occurred"
                /\ main_pc' = "failed"
                /\ UNCHANGED <<csv_data, relevant_papers_count, article_idx>>
         ELSE IF parsed = NoArticle
           THEN /\ article_idx' = article_idx + 1
                /\ UNCHANGED <<csv_data, relevant_papers_count, main_error, main_pc, message>>
         ELSE \E result \in {get_non_academic_authors(parsed)} :
              \E authors_list \in ListsOf(result.authors),
                 companies_list \in ListsOf(result.companies) :
                IF authors_list = <<>>
                  THEN /\ article_idx' = article_idx + 1
                       /\ UNCHANGED <<csv_data, relevant_papers_count, main_error, main_pc, message>>
                ELSE IF Join(authors_list) = TypeError \/ Join(companies_list) = TypeError
                  THEN \* the join of line 100 or 101 raises
                       /\ relevant_papers_count' = relevant_papers_count + 1
                       /\ main_error' = TRUE
                       /\ message' = "An error occurred"
                       /\ main_pc' = "failed"
                       /\ UNCHANGED <<csv_data, article_idx>>
                ELSE /\ relevant_papers_count' = relevant_papers_count + 1
                     /\ csv_data' = Append(csv_data, Row(parsed, authors_list, companies_list))
                     /\ article_idx' = article_idx + 1
                     /\ UNCHANGED <<main_error, main_pc, message>>
  /\ UNCHANGED <<articles, written, clsVars, artVars>>

\* lines 120-131: after the loop
MainFinish ==
  /\ main_pc = "loop"
  /\ article_idx > Len(articles)
  /\ written' = IF relevant_papers_count = 0 THEN <<>> ELSE csv_data
  /\ message' = IF relevant_papers_count = 0 THEN "Found 0 relevant papers"
                ELSE "rows written"
  /\ main_pc' = "done"
  /\ UNCHANGED <<articles, article_idx, csv_data, total_articles_processed,
                 relevant_papers_count, main_error, clsVars, artVars>>

NextMain == MainNoIds \/ MainNoDetails \/ MainFetch \/ MainBadResponse \/ MainArticle \/ MainFinish

SpecMain == InitMain /\ [][NextMain]_vars

(* ------------------------------------------------------------------ *)
(* Properties of the classifier (checked under SpecClassify)            *)
(* ------------------------------------------------------------------ *)

\* the roster of named entities: the keywords of the table that are plain
\* substrings, in the order of the table
Roster ==
  LET plain == SelectSeq(pharmaceutical_keywords, LAMBDA pat : ~pat.wb)
  IN  [k \in DOMAIN plain |-> plain[k].body]

RosterHits(text) == {k \in DOMAIN Roster : Contains(Roster[k], Lowercase(text))}

hasCompanySignal(text) ==
  \/ AnySearch(general_company_indicators, Lowercase(text))
  \/ AnySearch(company_suffixes, Lowercase(text))
  \/ RosterHits(text) # {}

hasAcademicSignal(text) == AnySearch(academic_keywords, Lowercase(text))

\* C1: identify_company_affiliation returns a label iff the text has a company
\* signal (sector keyword, legal suffix or named entity): academic without
\* company gives None, academic with company gives a label, neither gives None.
C1_LabelIffCompanySignal ==
  cls_pc = "done" =>
    LET ac == hasAcademicSignal(affiliation_text)
        co == hasCompanySignal(affiliation_text)
    IN  /\ (company_name # None) <=> co
        /\ (ac /\ ~co) => company_name = None
        /\ (ac /\ co) => company_name # None
        /\ (~ac /\ ~co) => company_name = None

\* a text with both an academic and a company signal was classified as company
C1_Witness ==
  /\ cls_pc = "done"
  /\ hasAcademicSignal(affiliation_text)
  /\ hasCompanySignal(affiliation_text)
  /\ company_name # None

\* C2 as stated: every roster entity contained in the text is the label returned.
C2_EveryContainedEntityReturned ==
  cls_pc = "done" =>
    \A k \in RosterHits(affiliation_text) : company_name = Roster[k]

\* C2 amended: when the text contains roster entities, the label is the one
\* that comes first in the roster, whatever else the text contains.
C2_FirstRosterEntityReturned ==
  cls_pc = "done" /\ RosterHits(affiliation_text) # {} =>
    \E k \in RosterHits(affiliation_text) :
       /\ \A j \in RosterHits(affiliation_text) : k <= j
       /\ company_name = Roster[k]

\* a text with two roster entities, a legal suffix or an academic keyword
C2_Witness ==
  /\ cls_pc = "done"
  /\ Cardinality(RosterHits(affiliation_text)) >= 2
  /\ \/ hasAcademicSignal(affiliation_text)
     \/ AnySearch(company_suffixes, Lowercase(affiliation_text))
  /\ company_name \in {Roster[k] : k \in RosterHits(affiliation_text)}

\* C3: the classifier returns None or a non-empty label; a text with a company
\* signal gets a non-empty label: the roster entity, else the suffix phrase,
\* else the trimmed text.
C3_LabelNeverEmpty ==
  cls_pc = "done" =>
    /\ company_name # <<>>
    /\ hasCompanySignal(affiliation_text) =>
         /\ company_name # None
         /\ company_name =
              IF RosterHits(affiliation_text) # {}
                THEN Roster[CHOOSE k \in RosterHits(affiliation_text) :
                              \A j \in RosterHits(affiliation_text) : k <= j]
              ELSE IF LabelSearch(affiliation_text) # None
                THEN LabelSearch(affiliation_text)
              ELSE Strip(affiliation_text)

\* the last resort was taken: the label is the text, trimmed of its blanks
C3_Witness ==
  /\ cls_pc = "done"
  /\ hasCompanySignal(affiliation_text)
  /\ RosterHits(affiliation_text) = {}
  /\ LabelSearch(affiliation_text) = None
  /\ company_name = Strip(affiliation_text)
  /\ company_name # affiliation_text

\* "Research Institute", as written in the affiliation
ResearchInstitute ==
  <<"R", "e", "s", "e", "a", "r", "c", "h", " ", "I", "n", "s", "t", "i", "t", "u", "t", "e">>

\* C11 as stated: a text that contains both "Research Institute" and "Inc"
\* is classified as a company (the result is not None).
C11_ResearchInstituteIncIsCompany ==
  /\ cls_pc = "done"
  /\ Contains(ResearchInstitute, affiliation_text)
  /\ Contains(<<"I", "n", "c">>, affiliation_text)
  => company_name # None

\* C11 amended: a text that contains "research institute" and the suffix "inc"
\* as a whole word (in any casing) is classified as a company.
C11_ResearchInstituteIncWordIsCompany ==
  /\ cls_pc = "done"
  /\ Contains(Lowercase(ResearchInstitute), Lowercase(affiliation_text))
  /\ RegexSearch(Bounded(<<"i", "n", "c">>), Lowercase(affiliation_text))
  => company_name # None

\* "Research Institute" counted as an academic keyword, "Inc" stood as a word,
\* and the text was classified as a company
C11_Witness ==
  /\ cls_pc = "done"
  /\ Contains(ResearchInstitute, affiliation_text)
  /\ RegexSearch(Bounded(<<"i", "n", "c">>), Lowercase(affiliation_text))
  /\ hasAcademicSignal(affiliation_text)
  /\ RosterHits(affiliation_text) = {}
  /\ ~AnySearch(general_company_indicators, Lowercase(affiliation_text))
  /\ company_name # None

(* ------------------------------------------------------------------ *)
(* Properties of the keyword tables (checked under SpecKeyword)         *)
(* ------------------------------------------------------------------ *)

\* the industry-sector keywords of the documentation, in lower case
ListedSectorKeywords ==
  {<<"p", "h", "a", "r", "m", "a", "c", "e", "u", "t", "i", "c", "a", "l">>,
   <<"p", "h", "a", "r", "m", "a">>,
   <<"b", "i", "o", "t", "e", "c", "h">>,
   <<"b", "i", "o", "t", "e", "c", "h", "n", "o", "l", "o", "g", "y">>,
   <<"t", "h", "e", "r", "a", "p", "e", "u", "t", "i", "c", "s">>,
   <<"d", "i", "a", "g", "n", "o", "s", "t", "i", "c", "s">>,
   <<"b", "i", "o", "s", "c", "i", "e", "n", "c", "e", "s">>,
   <<"g", "e", "n", "o", "m", "i", "c", "s">>,
   <<"l", "a", "b", "o", "r", "a", "t", "o", "r", "i", "e", "s">>,
   <<"r", "&", "d">>,
   <<"r", "e", "s", "e", "a", "r", "c", "h", " ", "&", " ", "d", "e", "v", "e", "l", "o", "p", "m", "e", "n", "t">>}

\* the listed keywords that stand in the text as a whole word, in any casing
ListedWordsIn(text) ==
  {kw \in ListedSectorKeywords : RegexSearch(Bounded(kw), Lowercase(text))}

\* C12: a text that holds one of the listed industry-sector keywords as a whole
\* word, in any casing, and no academic keyword has the company signal and is
\* classified as company-affiliated (the result is not None).
C12_EachSectorKeywordIsCompany ==
  /\ cls_pc = "done"
  /\ ListedWordsIn(affiliation_text) # {}
  /\ ~hasAcademicSignal(affiliation_text)
  => /\ is_company_affiliated(affiliation_text)
     /\ company_name # None

\* the two phrases and the five qualifiers of the documentation, in lower case
ListedPhrases ==
  {<<"r", "e", "s", "e", "a", "r", "c", "h", " ", "c", "e", "n", "t", "e", "r">>,
   <<"r", "e", "s", "e", "a", "r", "c", "h", " ", "i", "n", "s", "t", "i", "t", "u", "t", "e">>}

ListedQualifiers ==
  {<<"f", "o", "r", " ", "c", "a", "n", "c", "e", "r">>,
   <<"f", "o", "r", " ", "d", "i", "s", "e", "a", "s", "e">>,
   <<"f", "o", "r", " ", "c", "l", "i", "n", "i", "c", "a", "l">>,
   <<"f", "o", "r", " ", "i", "n", "n", "o", "v", "a", "t", "i", "o", "n">>,
   <<"f", "o", "r", " ", "t", "r", "a", "n", "s", "l", "a", "t", "i", "o", "n", "a", "l">>}

\* the phrase stands at position p of s as a whole word
PhraseAt(phrase, s, p) ==
  /\ MatchAt(phrase, s, p)
  /\ Boundary(s, p)
  /\ Boundary(s, p + Len(phrase))

\* the places where one of the two phrases stands in the text
PhrasePlaces(text) ==
  {pl \in ListedPhrases \X (1..Len(text)) : PhraseAt(pl[1], Lowercase(text), pl[2])}

\* an academic keyword other than the two phrases is found in the text
OtherAcademicKeyword(text) ==
  \E k \in DOMAIN academic_keywords :
     /\ academic_keywords[k].body \notin ListedPhrases
     /\ RegexSearch(academic_keywords[k], Lowercase(text))

\* the only academic keyword of the text is a phrase, and the qualifier follows
\* it immediately wherever it stands
OnlyQualifiedPhrase(text, qualifier) ==
  /\ PhrasePlaces(text) # {}
  /\ \A pl \in PhrasePlaces(text) :
        MatchAt(<<" ">> \o qualifier, Lowercase(text), pl[2] + Len(pl[1]))
  /\ ~OtherAcademicKeyword(text)

\* C13: for each of the five qualifiers, a text whose only academic keyword is
\* "research center" or "research institute" immediately followed by that
\* qualifier has the academic signal false.
C13_QualifiedPhraseNotAcademic ==
  cls_pc = "done" =>
    \A qualifier \in ListedQualifiers :
       OnlyQualifiedPhrase(affiliation_text, qualifier)
         => ~is_strong_academic(affiliation_text)

(* ------------------------------------------------------------------ *)
(* Properties of the aggregation (checked under SpecArticle)            *)
(* ------------------------------------------------------------------ *)

\* the affiliation is classified as company-affiliated
ClassifiedCompany(affiliation) == identify_company_affiliation(affiliation) # None

\* some affiliation of this author entry is classified as company-affiliated
HasCompanyClassification(author) ==
  \E j \in DOMAIN author.affiliations : ClassifiedCompany(author.affiliations[j])

\* C4 as stated: an author's display name is in the non-academic set iff one of
\* that author's own affiliations is classified as company-affiliated.
C4_NameInSetIffOwnAffiliation ==
  parse_pc = "evaluated" =>
    \A i \in DOMAIN parsed_article.authors :
       \E author \in {parsed_article.authors[i]} :
          (author.name \in ToSet(non_academic_authors)) <=> HasCompanyClassification(author)

\* C4 amended: a display name is in the non-academic set iff some author of the
\* article with that display name has an affiliation classified as
\* company-affiliated; no other name is in the set.
C4_NameInSetIffSomeBearer ==
  parse_pc = "evaluated" =>
    /\ \A i \in DOMAIN parsed_article.authors :
          \E author \in {parsed_article.authors[i]} :
             (author.name \in ToSet(non_academic_authors)) <=>
               \E k \in DOMAIN parsed_article.authors :
                  \E other \in {parsed_article.authors[k]} :
                     other.name = author.name /\ HasCompanyClassification(other)
    /\ \A n \in ToSet(non_academic_authors) :
          \E i \in DOMAIN parsed_article.authors : parsed_article.authors[i].name = n

\* two authors share a display name, only one of them has a company affiliation,
\* and a third kind of author (no company affiliation, other name) is left out
C4_Witness ==
  /\ parse_pc = "evaluated"
  /\ \E i, k \in DOMAIN parsed_article.authors :
        /\ i # k
        /\ parsed_article.authors[i].name = parsed_article.authors[k].name
        /\ HasCompanyClassification(parsed_article.authors[i])
        /\ ~HasCompanyClassification(parsed_article.authors[k])
        /\ parsed_article.authors[i].name \in ToSet(non_academic_authors)

\* every label the classifier gives for an affiliation of the article
AllLabels(article) ==
  UNION {{identify_company_affiliation(author.affiliations[j]) :
            j \in DOMAIN author.affiliations} : author \in ToSet(article.authors)}
    \ {None}

NoDuplicates(list) == \A i, j \in DOMAIN list : list[i] = list[j] => i = j

\* C5: the company labels returned are exactly the labels the classifier gives
\* for any affiliation of any author, and neither list returned holds a
\* string twice.
C5_AllLabelsOnce ==
  parse_pc = "evaluated" =>
    /\ ToSet(company_affiliations) = AllLabels(parsed_article)
    /\ NoDuplicates(company_affiliations)
    /\ NoDuplicates(non_academic_authors)

\* one author has two affiliations with different labels, both returned
C5_Witness ==
  /\ parse_pc = "evaluated"
  /\ \E i \in DOMAIN parsed_article.authors :
        \E author \in {parsed_article.authors[i]} :
           \E j, k \in DOMAIN author.affiliations :
              /\ ClassifiedCompany(author.affiliations[j])
              /\ ClassifiedCompany(author.affiliations[k])
              /\ identify_company_affiliation(author.affiliations[j]) #
                   identify_company_affiliation(author.affiliations[k])
              /\ {identify_company_affiliation(author.affiliations[j]),
                  identify_company_affiliation(author.affiliations[k])}
                   \subseteq ToSet(company_affiliations)

(* ------------------------------------------------------------------ *)
(* Properties of the report (checked under SpecMain)                    *)
(* ------------------------------------------------------------------ *)

\* the extraction of the record succeeds and its non-academic set is not empty
Relevant(xml) ==
  \E parsed \in {parse_pubmed_article_xml(xml)} :
     /\ parsed # NoArticle
     /\ "raised" \notin DOMAIN parsed
     /\ get_non_academic_authors(parsed).authors # {}

\* the records of the batch that are relevant, in the order of the batch
RelevantRecords(batch) == SelectSeq(batch, Relevant)

\* main has left the loop over a fetched batch, normally or not
LoopOver == main_pc \in {"done", "failed"} /\ article_idx >= 1

\* C6: the report is the header row followed by one data row for each record
\* whose extraction succeeds and whose non-academic set is not empty, in the
\* order of the batch; the other records add nothing and stop nothing.
C6_OneRowPerRelevantRecord ==
  LoopOver =>
    \E relevant \in {RelevantRecords(articles)} :
       /\ main_pc = "done"
       /\ Len(csv_data) = 1 + Len(relevant)
       /\ csv_data[1] = HeaderRow
       /\ \A j \in DOMAIN relevant : csv_data[j + 1][1] = TextOrNA(relevant[j].PMID)
       /\ relevant # <<>> => written = csv_data

(* ------------------------------------------------------------------ *)
(* Properties of the extractor (checked under SpecArticle)              *)
(* ------------------------------------------------------------------ *)

\* the call has returned
Returned == parse_pc \in {"returned", "evaluated"}

IsArticle(value) ==
  DOMAIN value = {"pubmed_id", "title", "publication_date", "authors",
                  "corresponding_author_email"}

\* C7: parse_pubmed_article_xml never raises; it returns an Article or None,
\* also on unparseable input and on elements without text.
C7_ParseNeverRaises ==
  /\ parse_pc # "raised"
  /\ Returned => parsed_article = NoArticle \/ IsArticle(parsed_article)

\* a well-formed record with an element without text, on which the call returned None
C7_Witness ==
  /\ Returned
  /\ xml_content # Unparseable
  /\ xml_content.PubDate # MissingElement
  /\ xml_content.PubDate.Year = None
  /\ parsed_article = NoArticle

\* the record has neither a Year nor a MedlineDate to take the date from
DateMissing(xml) ==
  \/ xml.PubDate = MissingElement
  \/ xml.PubDate.Year = Missing /\ xml.PubDate.MedlineDate = Missing

\* C8: on a record without a title, a date or an identifier the extraction
\* succeeds and the field of the Article is "N/A".
C8_MissingFieldGivesSentinel ==
  Returned /\ xml_content # Unparseable =>
    /\ xml_content.PMID = Missing =>
         parsed_article # NoArticle /\ parsed_article.pubmed_id = NA
    /\ xml_content.ArticleTitle = Missing =>
         parsed_article # NoArticle /\ parsed_article.title = NA
    /\ DateMissing(xml_content) =>
         parsed_article # NoArticle /\ parsed_article.publication_date = NA

\* the affiliation strings of the author entries, in document order
RECURSIVE AllAffiliations(_)
AllAffiliations(authors) ==
  IF authors = <<>> THEN <<>>
  ELSE Head(authors).affiliations \o AllAffiliations(Tail(authors))

\* the first e-mail match in a list of strings, None when there is none
FirstEmail(strings) ==
  LET hits == {j \in DOMAIN strings : EmailSearch(strings[j]) # None}
  IN  IF hits = {} THEN None
      ELSE EmailSearch(strings[CHOOSE j \in hits : \A k \in hits : j <= k])

\* the e-mail recorded is the first match among the authors scanned so far
EmailIsFirstMatch ==
  /\ parse_pc \in {"authors", "returned", "evaluated"} /\ xml_content # Unparseable =>
       \E scanned \in {AllAffiliations(authors_data)} :
          corresponding_author_email = FirstEmail(scanned)
  /\ Returned /\ parsed_article # NoArticle =>
       /\ parsed_article.corresponding_author_email = corresponding_author_email
       /\ Len(parsed_article.authors) =
            IF xml_content.HasAuthorList THEN Len(xml_content.Author) ELSE 0

\* C9: the corresponding e-mail is the first match in document order (authors,
\* then the affiliations of each author); once recorded it is never changed; it
\* is absent only if no affiliation holds a match.
C9_FirstEmailKept ==
  /\ []EmailIsFirstMatch
  /\ [][corresponding_author_email # None =>
          corresponding_author_email' = corresponding_author_email]_vars

\* the Article was returned with the first of two different addresses
C9_Witness ==
  /\ Returned
  /\ parsed_article # NoArticle
  /\ \E scanned \in {AllAffiliations(parsed_article.authors)} :
        \E j, k \in DOMAIN scanned :
           /\ j < k
           /\ EmailSearch(scanned[j]) # None
           /\ EmailSearch(scanned[k]) # None
           /\ EmailSearch(scanned[j]) # EmailSearch(scanned[k])
           /\ parsed_article.corresponding_author_email = EmailSearch(scanned[j])
  /\ Len(parsed_article.authors) >= 2
  /\ FirstEmail(parsed_article.authors[1].affiliations) = None

\* the text of an Affiliation node is missing, empty or blank
BlankNode(text) == text = None \/ Strip(text) = <<>>

\* the affiliation list the documentation describes: the nodes that are not
\* blank, trimmed, in document order
RECURSIVE TrimmedNonBlank(_)
TrimmedNonBlank(nodes) ==
  IF nodes = <<>> THEN <<>>
  ELSE IF BlankNode(Head(nodes)) THEN TrimmedNonBlank(Tail(nodes))
  ELSE <<Strip(Head(nodes))>> \o TrimmedNonBlank(Tail(nodes))

\* C10: every affiliation string of an Article is non-empty and trimmed; nodes
\* without text or with blank text are dropped, the others keep their order.
C10_AffiliationsTrimmedNonEmpty ==
  Returned /\ parsed_article # NoArticle =>
    \A i \in DOMAIN parsed_article.authors :
       \E affiliations \in {parsed_article.authors[i].affiliations} :
          /\ \A j \in DOMAIN affiliations :
                affiliations[j] # <<>> /\ Strip(affiliations[j]) = affiliations[j]
          /\ affiliations = TrimmedNonBlank(xml_content.Author[i].Affiliation)

(* ------------------------------------------------------------------ *)
(* Properties of the aggregation and the report (checked under SpecMain) *)
(* ------------------------------------------------------------------ *)

\* the record the loop of main is at, when its extraction gives an article
CurrentArticle ==
  {parsed \in {parse_pubmed_article_xml(articles[i]) : i \in {article_idx} \cap DOMAIN articles} :
     IsArticle(parsed)}

\* both collections are empty, or neither is
BothOrNeither(authors, companies) == (authors = {}) <=> (companies = {})

\* the data rows of the report so far
DataRows == {csv_data[i] : i \in 2..Len(csv_data)}

\* C14: get_non_academic_authors returns an empty author collection iff it
\* returns an empty company-label collection, for every article; hence every
\* data row of the report has a non-empty author column and a non-empty
\* company-affiliation column.
C14_AuthorsEmptyIffCompaniesEmpty ==
  /\ parse_pc = "evaluated" =>
       BothOrNeither(ToSet(non_academic_authors), ToSet(company_affiliations))
  /\ \A parsed \in CurrentArticle :
       \E result \in {get_non_academic_authors(parsed)} :
          BothOrNeither(result.authors, result.companies)
  /\ \A row \in DataRows : row[4] # <<>> /\ row[5] # <<>>

\* the report has two data rows, and the loop is at an article that has
\* authors, none of them non-academic, and no company label
C14_Witness ==
  /\ main_pc = "loop"
  /\ Cardinality(DataRows) = 2
  /\ \A row \in DataRows : row[4] # <<>> /\ row[5] # <<>>
  /\ \E parsed \in CurrentArticle :
       \E result \in {get_non_academic_authors(parsed)} :
          /\ parsed.authors # <<>>
          /\ result.authors = {}
          /\ result.companies = {}

====
